---- MODULE Spec2Model ----
(***************************************************************************)
(* Concentration metrics (HHI and Gini) of the restaking research scripts, *)
(* and the summary record run_analysis builds from them.                   *)
(*                                                                         *)
(* A float64 is modelled as an exact rational [n |-> numerator,            *)
(* d |-> denominator] in lowest terms with d > 0; the IEEE not-a-number    *)
(* value (numpy's np.nan, pandas' missing value) is the record with d = 0. *)
(* Rounding error of float64 arithmetic is not modelled.                   *)
(***************************************************************************)
EXTENDS Integers, Sequences, FiniteSets, TLC

VARIABLES delegated, hhi, gini, base, xform, all_results, analysed

\* state of the AVS analysis run and of the scripts run after it
VARIABLES pc, avs_index, avs_df, all_avs_results, trace, files, script_status

metricsVars == <<delegated, hhi, gini, base, xform, all_results, analysed>>

scriptVars == <<pc, avs_index, avs_df, all_avs_results, trace, files, script_status>>

vars == <<metricsVars, scriptVars>>

(***************************************************************************)
(* Bounds of the model.                                                    *)
(***************************************************************************)
MaxLen == 3
MaxValue == 2
MaxNeg == 1
NumAvs == 2

(***************************************************************************)
(* float64 values.                                                         *)
(***************************************************************************)
Abs(k) == IF k < 0 THEN -k ELSE k

RECURSIVE GCD(_, _)
GCD(a, b) == IF b = 0 THEN a ELSE GCD(b, a % b)

NaN == [n |-> 0, d |-> 0]

IsNaN(x) == x.d = 0

Norm(num, den) ==
    IF den = 0 THEN NaN
    ELSE LET s == IF den < 0 THEN -1 ELSE 1
             g == GCD(Abs(num), Abs(den))
         IN  [n |-> (s * num) \div g, d |-> (s * den) \div g]

F(k) == [n |-> k, d |-> 1]

Zero == F(0)

FAdd(x, y) ==
    IF IsNaN(x) \/ IsNaN(y) THEN NaN
    ELSE LET g == GCD(x.d, y.d)
         IN  Norm(x.n * (y.d \div g) + y.n * (x.d \div g), (x.d \div g) * y.d)

FMul(x, y) ==
    IF IsNaN(x) \/ IsNaN(y) THEN NaN
    ELSE LET g1 == GCD(Abs(x.n), y.d)
             g2 == GCD(Abs(y.n), x.d)
         IN  Norm((x.n \div g1) * (y.n \div g2), (x.d \div g2) * (y.d \div g1))

\* x / y; the code never divides by zero (both functions test the sum first)
FDiv(x, y) ==
    IF IsNaN(x) \/ IsNaN(y) \/ y.n = 0 THEN NaN
    ELSE FMul(x, Norm(y.d, y.n))

\* x < y, False when either side is NaN
FLess(x, y) == ~IsNaN(x) /\ ~IsNaN(y) /\ x.n * y.d < y.n * x.d

\* x >= 0, False for NaN
FGeqZero(x) == ~IsNaN(x) /\ x.n >= 0

(***************************************************************************)
(* pandas / numpy primitives the two functions use.                        *)
(***************************************************************************)
\* pandas Series.sum(): missing values are skipped, the empty sum is 0
RECURSIVE PdSum(_)
PdSum(s) ==
    IF s = <<>> THEN Zero
    ELSE IF IsNaN(Head(s)) THEN PdSum(Tail(s))
    ELSE FAdd(Head(s), PdSum(Tail(s)))

\* numpy.sum(): plain sum, NaN propagates, the empty sum is 0
RECURSIVE NpSum(_)
NpSum(a) == IF a = <<>> THEN Zero ELSE FAdd(Head(a), NpSum(Tail(a)))

\* arr[arr >= 0]: boolean-mask selection, order kept
FilterNonNegative(arr) == SelectSeq(arr, FGeqZero)

\* numpy.sort(): ascending order
NpSortIdentity(a) == a

NpSort(a) ==
    LET n == Len(a)
        rank(i) == 1 + Cardinality({j \in 1..n :
                        FLess(a[j], a[i]) \/ (a[j] = a[i] /\ j < i)})
    IN  [k \in 1..n |-> a[CHOOSE i \in 1..n : rank(i) = k]]

(***************************************************************************)
(* The analysis functions.                                                 *)
(***************************************************************************)
\* faulty variant: shares on the 0-1 scale instead of percentages
calculate_hhi_fraction(shares) ==
    IF PdSum(shares) = Zero THEN Zero
    ELSE LET total == PdSum(shares)
             percentages == [i \in DOMAIN shares |-> FDiv(shares[i], total)]
         IN  PdSum([i \in DOMAIN shares |-> FMul(percentages[i], percentages[i])])

\* faulty variant: the zero-sum case follows the Gini convention (undefined)
calculate_hhi_nan(shares) ==
    IF PdSum(shares) = Zero THEN NaN
    ELSE LET total == PdSum(shares)
             percentages == [i \in DOMAIN shares |->
                                FMul(FDiv(shares[i], total), F(100))]
         IN  PdSum([i \in DOMAIN shares |-> FMul(percentages[i], percentages[i])])

\* faulty variant: the percentages are summed before squaring
calculate_hhi_square_of_sum(shares) ==
    IF PdSum(shares) = Zero THEN Zero
    ELSE LET total == PdSum(shares)
             percentages == [i \in DOMAIN shares |->
                                FMul(FDiv(shares[i], total), F(100))]
         IN  FMul(PdSum(percentages), PdSum(percentages))

calculate_hhi(shares) ==
    IF PdSum(shares) = Zero THEN Zero
    ELSE LET total == PdSum(shares)
             percentages == [i \in DOMAIN shares |->
                                FMul(FDiv(shares[i], total), F(100))]
         IN  PdSum([i \in DOMAIN shares |-> FMul(percentages[i], percentages[i])])

\* faulty variant: negative values are clamped to zero instead of discarded
calculate_gini_clamp(arr0) ==
    LET numbers == SelectSeq(arr0, LAMBDA x : ~IsNaN(x))
        arr == [i \in DOMAIN numbers |->
                   IF numbers[i].n < 0 THEN Zero ELSE numbers[i]]
    IN  IF Len(arr) = 0 \/ NpSum(arr) = Zero THEN NaN
        ELSE LET sorted_arr == NpSort(arr)
                 n == Len(sorted_arr)
                 numerator == NpSum([i \in 1..n |->
                                  FMul(F(2 * i - n - 1), sorted_arr[i])])
                 denominator == FMul(F(n), NpSum(sorted_arr))
             IN  IF denominator = Zero THEN NaN ELSE FDiv(numerator, denominator)

\* faulty variant: the degenerate case returns 0, as calculate_hhi does
calculate_gini_zero(arr0) ==
    LET arr == FilterNonNegative(arr0)
    IN  IF Len(arr) = 0 \/ NpSum(arr) = Zero THEN Zero
        ELSE LET sorted_arr == NpSort(arr)
                 n == Len(sorted_arr)
                 numerator == NpSum([i \in 1..n |->
                                  FMul(F(2 * i - n - 1), sorted_arr[i])])
                 denominator == FMul(F(n), NpSum(sorted_arr))
             IN  IF denominator = Zero THEN NaN ELSE FDiv(numerator, denominator)

\* faulty variant: the denominator lacks the factor n
calculate_gini_no_n(arr0) ==
    LET arr == FilterNonNegative(arr0)
    IN  IF Len(arr) = 0 \/ NpSum(arr) = Zero THEN NaN
        ELSE LET sorted_arr == NpSort(arr)
                 n == Len(sorted_arr)
                 numerator == NpSum([i \in 1..n |->
                                  FMul(F(2 * i - n - 1), sorted_arr[i])])
                 denominator == NpSum(sorted_arr)
             IN  IF denominator = Zero THEN NaN ELSE FDiv(numerator, denominator)

\* faulty variant: the denominator lacks the sum of the values
calculate_gini_no_sum(arr0) ==
    LET arr == FilterNonNegative(arr0)
    IN  IF Len(arr) = 0 \/ NpSum(arr) = Zero THEN NaN
        ELSE LET sorted_arr == NpSort(arr)
                 n == Len(sorted_arr)
                 numerator == NpSum([i \in 1..n |->
                                  FMul(F(2 * i - n - 1), sorted_arr[i])])
                 denominator == F(n)
             IN  IF denominator = Zero THEN NaN ELSE FDiv(numerator, denominator)

\* faulty variant: the ranks start at 0 instead of 1
calculate_gini_zero_based(arr0) ==
    LET arr == FilterNonNegative(arr0)
    IN  IF Len(arr) = 0 \/ NpSum(arr) = Zero THEN NaN
        ELSE LET sorted_arr == NpSort(arr)
                 n == Len(sorted_arr)
                 numerator == NpSum([i \in 1..n |->
                                  FMul(F(2 * (i - 1) - n - 1), sorted_arr[i])])
                 denominator == FMul(F(n), NpSum(sorted_arr))
             IN  IF denominator = Zero THEN NaN ELSE FDiv(numerator, denominator)

calculate_gini(arr0) ==
    LET arr == FilterNonNegative(arr0)
    IN  IF Len(arr) = 0 \/ NpSum(arr) = Zero THEN NaN
        ELSE LET sorted_arr == NpSort(arr)
                 n == Len(sorted_arr)
                 numerator == NpSum([i \in 1..n |->
                                  FMul(F(2 * i - n - 1), sorted_arr[i])])
                 denominator == FMul(F(n), NpSum(sorted_arr))
             IN  IF denominator = Zero THEN NaN ELSE FDiv(numerator, denominator)

(***************************************************************************)
(* The copies of the two functions in mod1.5_avs_analysis.py.              *)
(***************************************************************************)
avs_calculate_hhi(shares) ==
    IF PdSum(shares) = Zero THEN Zero
    ELSE LET percentages == [i \in DOMAIN shares |->
                                FMul(FDiv(shares[i], PdSum(shares)), F(100))]
         IN  PdSum([i \in DOMAIN shares |-> FMul(percentages[i], percentages[i])])

\* faulty variant: the mask is arr > 0
avs_calculate_gini_strict(arr0) ==
    LET arr == SelectSeq(arr0, LAMBDA x : ~IsNaN(x) /\ x.n > 0)
    IN  IF Len(arr) = 0 \/ NpSum(arr) = Zero THEN NaN
        ELSE LET sorted_arr == NpSort(arr)
                 n == Len(sorted_arr)
                 index == [i \in 1..n |-> i]
                 numerator == NpSum([i \in 1..n |->
                                  FMul(F(2 * index[i] - n - 1), sorted_arr[i])])
                 denominator == FMul(F(n), NpSum(sorted_arr))
             IN  IF denominator = Zero THEN NaN ELSE FDiv(numerator, denominator)

avs_calculate_gini(arr0) ==
    LET arr == FilterNonNegative(arr0)
    IN  IF Len(arr) = 0 \/ NpSum(arr) = Zero THEN NaN
        ELSE LET sorted_arr == NpSort(arr)
                 n == Len(sorted_arr)
                 index == [i \in 1..n |-> i]
                 numerator == NpSum([i \in 1..n |->
                                  FMul(F(2 * index[i] - n - 1), sorted_arr[i])])
                 denominator == FMul(F(n), NpSum(sorted_arr))
             IN  IF denominator = Zero THEN NaN ELSE FDiv(numerator, denominator)

(***************************************************************************)
(* Fixed-point formatting of the summary fields (f"{x:,.2f}" and the       *)
(* like): the value is rounded half-to-even to the given number of         *)
(* decimals; NaN prints as "nan" and stays NaN here.                       *)
(***************************************************************************)
RECURSIVE Pow10(_)
Pow10(k) == IF k = 0 THEN 1 ELSE 10 * Pow10(k - 1)

RoundHalfEven(num, den) ==
    LET q == num \div den
        r == num % den
    IN  IF 2 * r < den THEN q
        ELSE IF 2 * r > den THEN q + 1
        ELSE IF q % 2 = 0 THEN q ELSE q + 1

FormatFixed(x, digits) ==
    IF IsNaN(x) THEN NaN
    ELSE LET p == Pow10(digits)
             q == x.n \div x.d
             r == x.n % x.d
         IN  Norm(q * p + RoundHalfEven(r * p, x.d), p)

(***************************************************************************)
(* run_analysis on the whole table (analysis_type = 'Overall'): df is the  *)
(* 'USD value Delegated' column of the fetched table.  The result is the   *)
(* empty sequence for Python's None, or a one-element sequence holding the *)
(* summary dictionary.                                                     *)
(***************************************************************************)
run_analysis(df) ==
    LET protocol_df == df
    IN  IF Len(protocol_df) = 0 THEN <<>>
        ELSE LET num_operators == Len(protocol_df)
                 total_stake_usd == PdSum(protocol_df)
                 hhi_ == calculate_hhi(protocol_df)
                 gini_ == calculate_gini(protocol_df)
             IN  << [NumberOfOperators |-> num_operators,
                     TotalDelegatedUSD |-> FormatFixed(total_stake_usd, 0),
                     HHI |-> FormatFixed(hhi_, 2),
                     GiniCoefficient |-> FormatFixed(gini_, 4)] >>

(***************************************************************************)
(* Inputs: the 'USD value Delegated' column handed to the functions.       *)
(***************************************************************************)
Values == {NaN} \cup {F(k) : k \in (-MaxNeg)..MaxValue}

SeqsUpTo(S, len) == UNION {[1..k -> S] : k \in 0..len}

\* the worked examples of the specification
Scenarios ==
    { <<F(100)>>, <<F(50), F(50)>>, <<F(500), F(300), F(100), F(100)>>,
      <<F(-1), F(-2)>> }

Inputs == SeqsUpTo(Values, MaxLen) \cup Scenarios

\* positive constants a collection is rescaled by
Scales == {Norm(1, 2), F(2), F(3)}

\* the permutations of 1..len, tabulated for the lengths that occur
PermsTable ==
    [len \in 0..(MaxLen + 1) |->
        {p \in [1..len -> 1..len] : \A i, j \in 1..len : p[i] = p[j] => i = j}]

Perms(len) == PermsTable[len]

(***************************************************************************)
(* The AVS analysis script (mod1.5_avs_analysis.py) and the scripts that   *)
(* write or read files: data they work on.                                 *)
(***************************************************************************)
COOLDOWN_SECONDS == 10

PAUSE_SECONDS == 3

\* the configured AVSs, numbered in the order of the dictionary
AVS_TO_ANALYZE == 1..NumAvs

\* a cell of the fetched 'USD value Delegated' column: a number or other text
Num(x) == [text |-> FALSE, v |-> x]

Text == [text |-> TRUE, v |-> NaN]

\* pd.to_numeric(column, errors='coerce')
to_numeric_coerce(column) ==
    [i \in DOMAIN column |-> IF column[i].text THEN NaN ELSE column[i].v]

\* a DataFrame: whether it has the 'USD value Delegated' column, and that column
Table(has_column, rows) ==
    [bound |-> TRUE, has_delegated |-> has_column, rows |-> rows]

\* the name avs_df before its first assignment
Unbound == [bound |-> FALSE, has_delegated |-> FALSE, rows |-> <<>>]

\* results the Dune API may return for a query
DuneTables ==
    { Table(FALSE, <<>>),
      Table(TRUE, <<Num(F(2)), Num(F(1))>>),
      Table(TRUE, <<Text, Num(F(-1)), Num(F(1))>>) }

\* what an attempt to run the query ends in: a DataFrame, an exception whose
\* text contains "429", or another exception
Outcomes == {"ok", "429", "other"}

\* "429" in str(e)
IsRateLimitAny(e) == TRUE

IsRateLimit(e) == e = "429"

\* where the loop goes after the first attempt
after_first_attempt_no_continue(outcome) ==
    IF outcome = "ok" THEN "compute"
    ELSE IF IsRateLimit(outcome) THEN "cooldown"
    ELSE "compute"

after_first_attempt(outcome) ==
    IF outcome = "ok" THEN "compute"
    ELSE IF IsRateLimit(outcome) THEN "cooldown"
    ELSE "for"

\* where the loop goes after the second attempt
after_retry_abort(outcome) == IF outcome = "ok" THEN "compute" ELSE "crashed"

after_retry(outcome) == IF outcome = "ok" THEN "compute" ELSE "for"

\* avs_df[delegated_col] = pd.to_numeric(avs_df[delegated_col], errors='coerce')
coerce_delegated(df) ==
    [df EXCEPT !.rows = [i \in DOMAIN df.rows |->
                            Num(to_numeric_coerce(df.rows)[i])]]

\* the metric computation of one iteration
avs_metrics(df) ==
    LET column == to_numeric_coerce(df.rows)
        num_operators == Len(df.rows)
        total_stake_usd == PdSum(column)
        hhi_ == avs_calculate_hhi(column)
        gini_ == avs_calculate_gini(column)
    IN  [NumberOfOperators |-> num_operators,
         TotalDelegatedUSD |-> FormatFixed(total_stake_usd, 0),
         HHI |-> FormatFixed(hhi_, 2),
         Gini |-> FormatFixed(gini_, 4)]

\* avs_metrics, tabulated once for the DataFrames avs_df can hold
AvsMetricsTable ==
    [df \in DuneTables \cup {coerce_delegated(t) : t \in DuneTables} |->
        avs_metrics(df)]

\* the dictionary appended to all_avs_results
avs_summary(avs_name, df) ==
    LET m == AvsMetricsTable[df]
    IN  [Market |-> avs_name,
         NumberOfOperators |-> m.NumberOfOperators,
         TotalDelegatedUSD |-> m.TotalDelegatedUSD,
         HHI |-> m.HHI,
         Gini |-> m.Gini]

\* an entry of the log of API calls, sleeps and metric computations
Event(ev, avs, out, secs, data) ==
    [ev |-> ev, avs |-> avs, out |-> out, secs |-> secs, data |-> data]

\* os.path.join, a path being the sequence of its components
PathJoin(a, b) == a \o b

output_dir == <<"outputs">>

avs_summary_path ==
    PathJoin(PathJoin(output_dir, <<"module1.5_AVS_concentration">>),
             <<"avs_concentration_summary.csv">>)

input_csv == <<"avs_concentration_summary.csv">>

avs_html_path ==
    PathJoin(<<"module1.5_outputs">>, <<"avs_hhi_concentration_chart.html">>)

dex_output_path ==
    PathJoin(PathJoin(output_dir, <<"module2_depeg_analysis">>),
             <<"figure_market_wide_dex_volume.png">>)

morpho_output_path ==
    PathJoin(PathJoin(output_dir, <<"module2_depeg_analysis">>),
             <<"figure_market_wide_dex_volume.png">>)

mainnet_html_path ==
    PathJoin(PathJoin(output_dir, <<"module2_depeg_analysis">>),
             <<"ezETH_depeg_mainnet_analysis.html">>)

blast_html_path ==
    PathJoin(PathJoin(output_dir, <<"module2_depeg_analysis">>),
             <<"ezETH_depeg_blast_contagion.html">>)

\* the file system: the files present, each with the script that wrote it
FileExists(fs, path) == \E f \in fs : f.path = path

WriteFile(fs, path, script) ==
    {f \in fs : f.path # path} \cup {[path |-> path, by |-> script]}

Scripts ==
    {"visualize_avs_conc", "visualize_dex_volume", "visualize_morpho_liqs",
     "depeg_analysis"}

ScriptsNotStarted ==
    /\ pc = "for"
    /\ avs_index = 0
    /\ avs_df = Unbound
    /\ all_avs_results = <<>>
    /\ trace = <<>>
    /\ files = {}
    /\ script_status = [s \in Scripts |-> "not_run"]

(***************************************************************************)
(* State.                                                                  *)
(*   delegated    the column of stake values of the analysis group         *)
(*   hhi, gini    result of the last call of calculate_hhi /               *)
(*                calculate_gini on delegated (<<>> : not called yet)      *)
(*   base         results obtained before the column was reordered or      *)
(*                rescaled                                                 *)
(*   xform        "none", "reorder" or "scale"                             *)
(*   all_results  the script's list of summary dictionaries                *)
(*   analysed     the overall-market analysis has run                      *)
(***************************************************************************)
Init ==
    /\ delegated \in Inputs
    /\ hhi = <<>>
    /\ gini = <<>>
    /\ base = <<>>
    /\ xform = "none"
    /\ all_results = <<>>
    /\ analysed = FALSE
    /\ ScriptsNotStarted

CallHhi ==
    /\ hhi = <<>>
    /\ hhi' = <<calculate_hhi(delegated)>>
    /\ UNCHANGED <<delegated, gini, base, xform, all_results, analysed>>
    /\ UNCHANGED scriptVars

CallGini ==
    /\ gini = <<>>
    /\ gini' = <<calculate_gini(delegated)>>
    /\ UNCHANGED <<delegated, hhi, base, xform, all_results, analysed>>
    /\ UNCHANGED scriptVars

\* the same observations arrive in another order
Reorder ==
    /\ xform = "none" /\ hhi # <<>> /\ gini # <<>> /\ ~analysed
    /\ \E p \in Perms(Len(delegated)) :
          delegated' = [i \in 1..Len(delegated) |-> delegated[p[i]]]
    /\ base' = <<[hhi |-> hhi[1], gini |-> gini[1]]>>
    /\ hhi' = <<>>
    /\ gini' = <<>>
    /\ xform' = "reorder"
    /\ UNCHANGED <<all_results, analysed>>
    /\ UNCHANGED scriptVars

\* the same observations arrive in another unit
Rescale ==
    /\ xform = "none" /\ hhi # <<>> /\ gini # <<>> /\ ~analysed
    /\ \E c \in Scales :
          delegated' = [i \in 1..Len(delegated) |-> FMul(c, delegated[i])]
    /\ base' = <<[hhi |-> hhi[1], gini |-> gini[1]]>>
    /\ hhi' = <<>>
    /\ gini' = <<>>
    /\ xform' = "scale"
    /\ UNCHANGED <<all_results, analysed>>
    /\ UNCHANGED scriptVars

\* overall_market_results = run_analysis(...); appended when not None
RunAnalysis ==
    /\ ~analysed
    /\ LET overall_market_results == run_analysis(delegated)
       IN  all_results' = IF overall_market_results # <<>>
                          THEN Append(all_results, overall_market_results[1])
                          ELSE all_results
    /\ analysed' = TRUE
    /\ UNCHANGED <<delegated, hhi, gini, base, xform>>
    /\ UNCHANGED scriptVars

Next == CallHhi \/ CallGini \/ Reorder \/ Rescale \/ RunAnalysis

Spec == Init /\ [][Next]_vars

(***************************************************************************)
(* The AVS analysis loop, its final output, and the scripts run after it.  *)
(*   pc             position in mod1.5_avs_analysis.py                     *)
(*   avs_index      the AVS of the current iteration (0 before the first)  *)
(*   avs_df         the variable avs_df                                    *)
(*   trace          log of query executions, sleeps and computations       *)
(*   files          the files below the working directory                  *)
(*   script_status  how the last run of each other script ended            *)
(***************************************************************************)
InitAvs ==
    /\ delegated = <<>>
    /\ hhi = <<>>
    /\ gini = <<>>
    /\ base = <<>>
    /\ xform = "none"
    /\ all_results = <<>>
    /\ analysed = FALSE
    /\ ScriptsNotStarted

\* for avs_name, avs_address in AVS_TO_ANALYZE.items()
ForNext ==
    /\ pc = "for"
    /\ IF avs_index < NumAvs
       THEN avs_index' = avs_index + 1 /\ pc' = "query"
       ELSE avs_index' = avs_index /\ pc' = "output"
    /\ UNCHANGED <<avs_df, all_avs_results, trace, files, script_status>>
    /\ UNCHANGED metricsVars

\* first attempt: dune.run_query_dataframe(query=query) and its handler
RunQuery ==
    /\ pc = "query"
    /\ \E outcome \in Outcomes :
          \E response \in (IF outcome = "ok" THEN DuneTables ELSE {Unbound}) :
             /\ trace' = Append(trace, Event("query", avs_index, outcome, 0, response))
             /\ avs_df' = IF outcome = "ok" THEN response ELSE avs_df
             /\ pc' = after_first_attempt(outcome)
    /\ UNCHANGED <<avs_index, all_avs_results, files, script_status>>
    /\ UNCHANGED metricsVars

\* time.sleep(10)
CoolDown ==
    /\ pc = "cooldown"
    /\ trace' = Append(trace, Event("sleep", avs_index, "", COOLDOWN_SECONDS, Unbound))
    /\ pc' = "retry"
    /\ UNCHANGED <<avs_index, avs_df, all_avs_results, files, script_status>>
    /\ UNCHANGED metricsVars

\* second attempt: dune.run_query_dataframe(query=query, performance="large")
Retry ==
    /\ pc = "retry"
    /\ \E outcome \in Outcomes :
          \E response \in (IF outcome = "ok" THEN DuneTables ELSE {Unbound}) :
             /\ trace' = Append(trace, Event("query", avs_index, outcome, 0, response))
             /\ avs_df' = IF outcome = "ok" THEN response ELSE avs_df
             /\ pc' = after_retry(outcome)
    /\ UNCHANGED <<avs_index, all_avs_results, files, script_status>>
    /\ UNCHANGED metricsVars

\* the print of len(avs_df) and the try block of the metric computation
Compute ==
    /\ pc = "compute"
    /\ \/ \* NameError outside any try block
          /\ ~avs_df.bound
          /\ pc' = "crashed"
          /\ UNCHANGED <<avs_df, all_avs_results, trace>>
       \/ \* KeyError, caught and reported
          /\ avs_df.bound /\ ~avs_df.has_delegated
          /\ trace' = Append(trace, Event("compute", avs_index, "raise", 0, avs_df))
          /\ pc' = "pause"
          /\ UNCHANGED <<avs_df, all_avs_results>>
       \/ /\ avs_df.bound /\ avs_df.has_delegated
          /\ avs_df' = coerce_delegated(avs_df)
          /\ all_avs_results' = Append(all_avs_results, avs_summary(avs_index, avs_df))
          /\ trace' = Append(trace, Event("compute", avs_index, "ok", 0, avs_df))
          /\ pc' = "pause"
    /\ UNCHANGED <<avs_index, files, script_status>>
    /\ UNCHANGED metricsVars

\* time.sleep(3)
Pause ==
    /\ pc = "pause"
    /\ trace' = Append(trace, Event("sleep", avs_index, "", PAUSE_SECONDS, Unbound))
    /\ pc' = "for"
    /\ UNCHANGED <<avs_index, avs_df, all_avs_results, files, script_status>>
    /\ UNCHANGED metricsVars

\* the summary CSV is written when all_avs_results is not empty
FinalOutput ==
    /\ pc = "output"
    /\ files' = IF all_avs_results # <<>>
                THEN WriteFile(files, avs_summary_path, "avs_analysis")
                ELSE files
    /\ pc' = "done"
    /\ UNCHANGED <<avs_index, avs_df, all_avs_results, trace, script_status>>
    /\ UNCHANGED metricsVars

AvsStep ==
    ForNext \/ RunQuery \/ CoolDown \/ Retry \/ Compute \/ Pause \/ FinalOutput

\* mod1.5_visualize_avs_conc.py
RunVisualizeAvs ==
    /\ pc = "done"
    /\ IF ~FileExists(files, input_csv)
       THEN \* FileNotFoundError: exit()
            /\ script_status' = [script_status EXCEPT !["visualize_avs_conc"] = "exited"]
            /\ UNCHANGED files
       ELSE /\ files' = WriteFile(files, avs_html_path, "visualize_avs_conc")
            /\ script_status' = [script_status EXCEPT !["visualize_avs_conc"] = "saved"]
    /\ UNCHANGED <<pc, avs_index, avs_df, all_avs_results, trace>>
    /\ UNCHANGED metricsVars

\* visualize_dex_volume.py
RunVisualizeDexVolume ==
    /\ pc = "done"
    /\ \E fetched \in BOOLEAN :
          IF ~fetched
          THEN /\ script_status' = [script_status EXCEPT !["visualize_dex_volume"] = "exited"]
               /\ UNCHANGED files
          ELSE /\ files' = WriteFile(files, dex_output_path, "visualize_dex_volume")
               /\ script_status' = [script_status EXCEPT !["visualize_dex_volume"] = "saved"]
    /\ UNCHANGED <<pc, avs_index, avs_df, all_avs_results, trace>>
    /\ UNCHANGED metricsVars

\* visualize_morpho_liqs.py
RunVisualizeMorphoLiqs ==
    /\ pc = "done"
    /\ \E fetched \in BOOLEAN :
          IF ~fetched
          THEN /\ script_status' = [script_status EXCEPT !["visualize_morpho_liqs"] = "exited"]
               /\ UNCHANGED files
          ELSE /\ files' = WriteFile(files, morpho_output_path, "visualize_morpho_liqs")
               /\ script_status' = [script_status EXCEPT !["visualize_morpho_liqs"] = "saved"]
    /\ UNCHANGED <<pc, avs_index, avs_df, all_avs_results, trace>>
    /\ UNCHANGED metricsVars

\* mod2_depeg_analysis.py
RunDepegAnalysis ==
    /\ pc = "done"
    /\ \E fetched \in BOOLEAN :
          IF ~fetched
          THEN /\ script_status' = [script_status EXCEPT !["depeg_analysis"] = "exited"]
               /\ UNCHANGED files
          ELSE /\ files' = WriteFile(WriteFile(files, mainnet_html_path, "depeg_analysis"),
                                     blast_html_path, "depeg_analysis")
               /\ script_status' = [script_status EXCEPT !["depeg_analysis"] = "saved"]
    /\ UNCHANGED <<pc, avs_index, avs_df, all_avs_results, trace>>
    /\ UNCHANGED metricsVars

NextAvs ==
    \/ ForNext \/ RunQuery \/ CoolDown \/ Retry \/ Compute \/ Pause \/ FinalOutput
    \/ RunVisualizeAvs \/ RunVisualizeDexVolume \/ RunVisualizeMorphoLiqs
    \/ RunDepegAnalysis

SpecAvs == InitAvs /\ [][NextAvs]_vars

\* the script is a sequential program: it keeps executing until it ends
FairSpecAvs == SpecAvs /\ WF_vars(AvsStep)

(***************************************************************************)
(* Reference notions used by the properties below.  The values of a        *)
(* collection are its entries that are numbers; a missing entry (NaN) is   *)
(* not a value.                                                            *)
(***************************************************************************)
IsNumber(x) == x.d # 0

Present(s) == SelectSeq(s, IsNumber)

NotBelowZero(x) == ~(x.n < 0)

\* the values left after discarding those strictly less than zero
Kept(s) == SelectSeq(Present(s), NotBelowZero)

RECURSIVE Total(_)
Total(s) == IF s = <<>> THEN Zero ELSE FAdd(Total(Tail(s)), Head(s))

RECURSIVE SumOfSquares(_)
SumOfSquares(s) ==
    IF s = <<>> THEN Zero
    ELSE FAdd(SumOfSquares(Tail(s)), FMul(Head(s), Head(s)))

AllNonNegative(s) == \A i \in 1..Len(s) : s[i].n >= 0

NumPositive(s) == Cardinality({i \in 1..Len(s) : s[i].n > 0})

Ascending(s) == \A i \in 1..(Len(s) - 1) : ~FLess(s[i + 1], s[i])

\* sum((2*i - n - 1) * s[i]) for i = 1..n
RECURSIVE RankSum(_, _)
RankSum(s, i) ==
    IF i = 0 THEN Zero
    ELSE FAdd(RankSum(s, i - 1), FMul(F(2 * i - Len(s) - 1), s[i]))

\* the rank-based Gini of the kept values k, for some ascending ordering
IsRankGini(g, k) ==
    \E p \in Perms(Len(k)) :
        LET s == [i \in 1..Len(k) |-> k[p[i]]]
        IN  /\ Ascending(s)
            /\ FMul(g, FMul(F(Len(k)), Total(k))) = RankSum(s, Len(s))

IsReordering(s, t) ==
    /\ Len(s) = Len(t)
    /\ \E p \in Perms(Len(s)) : t = [i \in 1..Len(s) |-> s[p[i]]]

(***************************************************************************)
(* C1: for non-negative values with non-zero sum, calculate_hhi returns    *)
(* the sum of the squared percentage shares, 10000 * sum(v^2) / total^2;   *)
(* [100] gives 10000, [50,50] gives 5000, [500,300,100,100] gives 3600.    *)
(***************************************************************************)
Thm_C1_HhiIsSumOfSquaredPercentages ==
    (hhi # <<>>) =>
        LET v == Present(delegated)
        IN  /\ (AllNonNegative(v) /\ Total(v) # Zero) =>
                  hhi[1] = FMul(F(10000),
                                FDiv(SumOfSquares(v), FMul(Total(v), Total(v))))
            /\ (delegated = <<F(100)>>) => hhi[1] = F(10000)
            /\ (delegated = <<F(50), F(50)>>) => hhi[1] = F(5000)
            /\ (delegated = <<F(500), F(300), F(100), F(100)>>) => hhi[1] = F(3600)

Wit_C1_EndToEndHhi ==
    /\ delegated = <<F(500), F(300), F(100), F(100)>>
    /\ hhi = <<F(3600)>>

(***************************************************************************)
(* C2: calculate_gini discards the values below zero (no clamping) and,    *)
(* when the n remaining values have a non-zero sum, returns                *)
(* sum((2i - n - 1) * value_i) / (n * sum) over their ascending order;     *)
(* [500,300,100,100] gives 0.35.                                           *)
(***************************************************************************)
Thm_C2_GiniIsRankFormula ==
    (gini # <<>>) =>
        LET k == Kept(delegated)
        IN  /\ (Total(k) # Zero) => IsRankGini(gini[1], k)
            /\ (delegated = <<F(500), F(300), F(100), F(100)>>) =>
                  gini[1] = Norm(35, 100)

Wit_C2_NegativeDiscarded ==
    /\ delegated = <<F(-1), F(2), F(1)>>
    /\ gini = <<Norm(1, 6)>>

(***************************************************************************)
(* C3: calculate_hhi returns 0 for every input whose sum is exactly zero,  *)
(* the empty and the all-zero collection included.                         *)
(***************************************************************************)
Thm_C3_HhiZeroSumIsZero ==
    (hhi # <<>> /\ Total(Present(delegated)) = Zero) => hhi[1] = Zero

Wit_C3_AllZero ==
    /\ delegated = <<F(0), F(0), F(0)>>
    /\ hhi = <<Zero>>

(***************************************************************************)
(* C4: calculate_gini returns NaN exactly when the values left after       *)
(* discarding the negative ones are none or sum to zero.                   *)
(***************************************************************************)
Thm_C4_GiniUndefinedIffDegenerate ==
    (gini # <<>>) =>
        (IsNaN(gini[1]) <=>
            (Kept(delegated) = <<>> \/ Total(Kept(delegated)) = Zero))

Wit_C4_AllNegative ==
    /\ delegated = <<F(-1), F(-2)>>
    /\ gini = <<NaN>>

Cex_C7_HhiFromFilteredSubset ==
    (analysed /\ all_results # <<>>) =>
        all_results[1].HHI = FormatFixed(calculate_hhi(Kept(delegated)), 2)

(***************************************************************************)
(* C8: a group whose total stake is zero gets a summary with HHI 0 and     *)
(* Gini undefined.                                                         *)
(***************************************************************************)
Cex_C8_ZeroTotalSummary ==
    (analysed /\ all_results # <<>> /\ PdSum(delegated) = Zero) =>
        /\ all_results[1].HHI = Zero
        /\ IsNaN(all_results[1].GiniCoefficient)

(***************************************************************************)
(* C9: calculate_gini returns the same result for a collection and for     *)
(* every reordering of it.                                                 *)
(***************************************************************************)
Thm_C9_GiniPermutationInvariant ==
    (xform = "reorder" /\ gini # <<>>) => gini[1] = base[1].gini

Wit_C9_ReorderedUnsorted ==
    /\ xform = "reorder"
    /\ gini # <<>>
    /\ ~IsNaN(gini[1])
    /\ Len(Kept(delegated)) >= 2
    /\ ~Ascending(Kept(delegated))

Thm_C16_CopiesAgree ==
    /\ (hhi # <<>>) => avs_calculate_hhi(delegated) = hhi[1]
    /\ (gini # <<>>) => avs_calculate_gini(delegated) = gini[1]

Wit_C16_BothCalledOnMixedColumn ==
    /\ hhi # <<>> /\ gini # <<>>
    /\ \E i \in 1..Len(delegated) : IsNaN(delegated[i])
    /\ \E i \in 1..Len(delegated) : IsNumber(delegated[i]) /\ delegated[i].n < 0
    /\ \E i \in 1..Len(delegated) : delegated[i] = Zero
    /\ avs_calculate_hhi(delegated) = hhi[1]
    /\ hhi[1] # Zero

(***************************************************************************)
(* Reference notions for the AVS analysis loop.                            *)
(***************************************************************************)
\* positions in the log of the query executions for AVS k
QueryIdx(k) ==
    {j \in 1..Len(trace) : trace[j].ev = "query" /\ trace[j].avs = k}

IsCoolDown(e) == e.ev = "sleep" /\ e.secs = COOLDOWN_SECONDS

IsPause(e) == e.ev = "sleep" /\ e.secs = PAUSE_SECONDS

\* the query executions for AVS k that are not a retry
FirstAttempts(k) ==
    {j \in QueryIdx(k) : j = 1 \/ ~IsCoolDown(trace[j - 1])}

(***************************************************************************)
(* C12: the query for one AVS is executed at most twice; a second          *)
(* execution only follows a first one that raised an error containing      *)
(* "429", and only after the 10-second cool-down.                          *)
(***************************************************************************)
Thm_C12_RetryOnceOnRateLimit ==
    \A k \in AVS_TO_ANALYZE :
        /\ Cardinality(QueryIdx(k)) <= 2
        /\ \A j \in QueryIdx(k) :
              (\E j0 \in QueryIdx(k) : j0 < j) =>
                  /\ j >= 3
                  /\ IsCoolDown(trace[j - 1]) /\ trace[j - 1].avs = k
                  /\ (j - 2) \in QueryIdx(k)
                  /\ trace[j - 2].out = "429"

Wit_C12_Retried ==
    \E k \in AVS_TO_ANALYZE :
        /\ Cardinality(QueryIdx(k)) = 2
        /\ \E j \in QueryIdx(k) : trace[j].out = "other"

(***************************************************************************)
(* C13: all_avs_results holds at most one record per AVS, in configuration *)
(* order; a record for an AVS exists iff its query succeeded and its       *)
(* metric computation raised nothing; each record is computed from the     *)
(* data fetched for that AVS.                                              *)
(***************************************************************************)
Thm_C13_ResultsMatchFetches ==
    /\ \A a, b \in 1..Len(all_avs_results) :
          a < b => all_avs_results[a].Market < all_avs_results[b].Market
    /\ \A k \in AVS_TO_ANALYZE :
          (\E a \in 1..Len(all_avs_results) : all_avs_results[a].Market = k)
          <=> /\ \E j \in QueryIdx(k) : trace[j].out = "ok"
              /\ \E j \in 1..Len(trace) :
                    trace[j].ev = "compute" /\ trace[j].avs = k /\ trace[j].out = "ok"
    /\ \A a \in 1..Len(all_avs_results) :
          \E j \in QueryIdx(all_avs_results[a].Market) :
              /\ trace[j].out = "ok"
              /\ all_avs_results[a] =
                     avs_summary(all_avs_results[a].Market, trace[j].data)

Wit_C13_SecondAvsOnlyAfterFailure ==
    /\ pc = "done"
    /\ Len(all_avs_results) = 1
    /\ all_avs_results[1].Market = 2
    /\ \E j \in QueryIdx(1) : trace[j].out = "ok"
    /\ \E j \in QueryIdx(2) : trace[j].out = "429"

(***************************************************************************)
(* C14: whatever fails for an AVS, the run goes on: the final output is    *)
(* reached, every AVS has then been attempted exactly once, and the        *)
(* summary CSV is written iff a record was collected.                      *)
(***************************************************************************)
Thm_C14_RunCompletes ==
    /\ <>(pc = "done")
    /\ [](pc = "done" =>
            /\ \A k \in AVS_TO_ANALYZE : Cardinality(FirstAttempts(k)) = 1
            /\ FileExists(files, avs_summary_path) <=> (all_avs_results # <<>>))

Wit_C14_DoneDespiteFailures ==
    /\ pc = "done"
    /\ \E j \in 1..Len(trace) : trace[j].ev = "query" /\ trace[j].out # "ok"
    /\ \E j \in 1..Len(trace) : trace[j].ev = "compute" /\ trace[j].out = "raise"
    /\ ~FileExists(files, avs_summary_path)

(***************************************************************************)
(* C15: between the last query execution for one AVS and the first query   *)
(* execution for the next AVS there is always the 3-second pause.          *)
(***************************************************************************)
Cex_C15_PauseBetweenAvs ==
    \A j, j2 \in 1..Len(trace) :
        (/\ j < j2
         /\ trace[j].ev = "query" /\ trace[j2].ev = "query"
         /\ trace[j].avs # trace[j2].avs)
        => \E m \in (j + 1)..(j2 - 1) : IsPause(trace[m])

(***************************************************************************)
(* C17: after an AVS analysis run that collected a record, a run of the    *)
(* AVS visualization script finds its input file and does not take the     *)
(* file-not-found exit.                                                    *)
(***************************************************************************)
Cex_C17_VisualizationFindsCsv ==
    (/\ pc = "done"
     /\ all_avs_results # <<>>
     /\ script_status["visualize_avs_conc"] # "not_run")
    => script_status["visualize_avs_conc"] = "saved"

(***************************************************************************)
(* C18: no script overwrites another script's artifact: after              *)
(* visualize_dex_volume.py and visualize_morpho_liqs.py have both saved    *)
(* their chart, both charts are on disk.                                   *)
(***************************************************************************)
Cex_C18_BothChartsOnDisk ==
    (/\ script_status["visualize_dex_volume"] = "saved"
     /\ script_status["visualize_morpho_liqs"] = "saved")
    => /\ \E f \in files : f.by = "visualize_dex_volume"
       /\ \E f \in files : f.by = "visualize_morpho_liqs"

====
